---- MODULE Spec2Model ----
(***************************************************************************)
(* Model of the interactive test-session logger (test_logger/src/main.rs). *)
(*                                                                         *)
(* A Rust String is a sequence of one-character strings.  The inputs are   *)
(* ASCII, on which str::to_lowercase and eq_ignore_ascii_case fold the     *)
(* same letters and byte offsets are character offsets.  A DateTime is a   *)
(* number of clock ticks; its "%Y-%m-%d %H:%M:%S" rendering is modelled by *)
(* the decimal digits of its whole seconds (second precision, and like the *)
(* real rendering free of brackets, quotes, commas and tabs).              *)
(***************************************************************************)
EXTENDS Integers, Sequences, FiniteSets, TLC

\* ---------------------------------------------------------------- bounds
MaxRecords == 2
ClockStride == 123
TicksPerSec == 2
MaxWritten == 1
MaxDescLen == 2

\* ------------------------------------------------------- string helpers
UpperCase == <<"A","B","C","D","E","F","G","H","I","J","K","L","M","N","O","P","Q","R","S","T","U","V","W","X","Y","Z">>
LowerCase == <<"a","b","c","d","e","f","g","h","i","j","k","l","m","n","o","p","q","r","s","t","u","v","w","x","y","z">>

is_whitespace(c) == c \in {" ", "\t"}

to_lowercase_char(c) ==
    IF \E i \in 1..Len(UpperCase) : UpperCase[i] = c
    THEN LowerCase[CHOOSE i \in 1..Len(UpperCase) : UpperCase[i] = c]
    ELSE c

to_lowercase(s) == [i \in 1..Len(s) |-> to_lowercase_char(s[i])]

SetMin(S) == CHOOSE x \in S : \A y \in S : x <= y
SetMax(S) == CHOOSE x \in S : \A y \in S : x >= y

trim(s) ==
    LET keep == {i \in 1..Len(s) : ~is_whitespace(s[i])}
    IN  IF keep = {} THEN <<>> ELSE SubSeq(s, SetMin(keep), SetMax(keep))

starts_with_missing_last(s, p) ==
    /\ Len(s) >= Len(p) - 1
    /\ SubSeq(s, 1, Len(p) - 1) = SubSeq(p, 1, Len(p) - 1)

starts_with(s, p) == Len(s) >= Len(p) /\ SubSeq(s, 1, Len(p)) = p

\* What a slice out of range evaluates to: the thread panics
Panicked == <<"<panic>">>

slice_from_off_by_one(s, n) == IF n > Len(s) THEN Panicked ELSE SubSeq(s, n, Len(s))

\* s[n..] : the characters of s after its first n; panics when n > len
slice_from(s, n) == IF n > Len(s) THEN Panicked ELSE SubSeq(s, n + 1, Len(s))

eq_exact(a, b) == a = b

eq_ignore_ascii_case(a, b) == to_lowercase(a) = to_lowercase(b)

\* ------------------------------------------------------------ parse_input
parse_input(input) ==
    LET trimmed == trim(input)
        lowered == to_lowercase(trimmed)
    IN  IF starts_with(lowered, <<"b","u","g",":">>)
        THEN <<<<"O","B","S","E","R","V","A","T","I","O","N">>, <<"B","U","G">>, trim(slice_from(trimmed, 4))>>
        ELSE IF starts_with(lowered, <<"w","a","r","n",":">>)
        THEN <<<<"O","B","S","E","R","V","A","T","I","O","N">>, <<"W","A","R","N">>, trim(slice_from(trimmed, 5))>>
        ELSE IF starts_with(lowered, <<"g","o","o","d",":">>)
        THEN <<<<"O","B","S","E","R","V","A","T","I","O","N">>, <<"G","O","O","D">>, trim(slice_from(trimmed, 5))>>
        ELSE IF starts_with(lowered, <<"p","a","s","s",":">>)
        THEN <<<<"O","B","S","E","R","V","A","T","I","O","N">>, <<"P","A","S","S">>, trim(slice_from(trimmed, 5))>>
        ELSE IF starts_with(lowered, <<"f","a","i","l",":">>)
        THEN <<<<"O","B","S","E","R","V","A","T","I","O","N">>, <<"F","A","I","L">>, trim(slice_from(trimmed, 5))>>
        ELSE IF starts_with(lowered, <<"r","e","l","o","a","d",":">>)
        THEN <<<<"R","E","L","O","A","D">>, <<"V","E","R","S","I","O","N">>, trim(slice_from(trimmed, 7))>>
        ELSE IF starts_with(lowered, <<"t","e","s","t","c","a","s","e",":">>)
        THEN <<<<"T","E","S","T"," ","C","A","S","E">>, <<"N","A","M","E">>, trim(slice_from(trimmed, 9))>>
        ELSE <<<<"O","B","S","E","R","V","A","T","I","O","N">>, <<"N","O","T","E">>, trimmed>>

\* ------------------------------------------------------------ the Clock
\* The instants the Clock can return, in ticks, in any order: it may stand
\* still, advance or run backwards between two readings.
Instants == {0, ClockStride}

DigitChars == <<"0","1","2","3","4","5","6","7","8","9">>

RECURSIVE nat_digits(_)
nat_digits(n) ==
    IF n < 10 THEN <<DigitChars[n + 1]>>
    ELSE nat_digits(n \div 10) \o <<DigitChars[(n % 10) + 1]>>

\* Display of an i64 / u32
display_int(n) == IF n < 0 THEN <<"-">> \o nat_digits(-n) ELSE nat_digits(n)

\* DateTime::format("%Y-%m-%d %H:%M:%S"): second precision
format_time(t) == nat_digits(t \div TicksPerSec)

\* Local::now() and Utc::now() are read at the same instant now
get_timestamp(now) == <<format_time(now), format_time(now), now>>

\* Rust integer division and remainder truncate toward zero
rust_div(a, b) == IF a >= 0 THEN a \div b ELSE -((-a) \div b)

rust_rem(a, b) == IF a >= 0 THEN a % b ELSE -((-a) % b)

\* chrono::Duration::num_seconds and num_minutes
num_seconds(d) == rust_div(d, TicksPerSec)

num_minutes(d) == rust_div(num_seconds(d), 60)

\* the two numbers of "{} minutes {} seconds"
duration_minutes(d) == num_minutes(d)

duration_seconds(d) == rust_rem(num_seconds(d), 60)

\* --------------------------------------------------------------- entries
LogEntry(local, utc, kind, desc, tag) ==
    [local_time |-> local, utc_time |-> utc, entry_type |-> kind,
     description |-> desc, tag |-> tag]

push_front(v, e) == <<e>> \o v

\* Vec::push
push(v, e) == Append(v, e)

EmptyCounts == [t \in {} |-> 0]

tally_reset(counts, tag) ==
    LET m == IF tag \in DOMAIN counts THEN counts ELSE counts @@ (tag :> 0)
    IN  [m EXCEPT ![tag] = 1]

\* *tag_counts.entry(tag).or_insert(0) += 1
tally(counts, tag) ==
    LET m == IF tag \in DOMAIN counts THEN counts ELSE counts @@ (tag :> 0)
    IN  [m EXCEPT ![tag] = @ + 1]

\* The orders in which a HashMap with key set S can be iterated
IterOrders(S) ==
    {o \in [1..Cardinality(S) -> S] : {o[i] : i \in 1..Cardinality(S)} = S}

\* ------------------------------------------------------------- renderers
Dashes == <<"-","-","-","-","-","-","-","-","-","-","-","-","-","-","-","-","-","-","-","-","-","-","-","-","-","-","-","-","-","-","-","-","-","-","-","-","-","-","-">>

pad_left_justified(s, w) ==
    IF Len(s) >= w THEN s ELSE s \o [i \in 1..(w - Len(s)) |-> " "]

txt_entry_line(log) ==
    <<"[","L","o","c","a","l",":"," ">> \o log.local_time \o <<"]"," ","[","U","T","C",":"," ">> \o log.utc_time
    \o <<"]"," ","[">> \o trim(log.entry_type) \o <<"]","\t","[">> \o trim(log.tag)
    \o <<"]","\t">> \o log.description

duration_text(d) ==
    display_int(duration_minutes(d)) \o <<" ","m","i","n","u","t","e","s"," ">>
    \o display_int(duration_seconds(d)) \o <<" ","s","e","c","o","n","d","s">>

\* The lines write_logs_txt writes, in order
write_logs_txt(logs_, meta, start_time_, end_time_, duration, counts, order) ==
    << <<"-","-","-"," ","T","e","s","t"," ","S","e","s","s","i","o","n"," ","S","t","a","r","t","e","d"," ","-","-","-">>,
       <<"T","e","s","t"," ","N","a","m","e"," "," "," "," "," "," "," "," "," "," "," "," ",":"," ">> \o meta[2],
       <<"S","o","f","t","w","a","r","e"," ","V","e","r","s","i","o","n"," ","a","n","d"," ","H","a","s","h"," "," "," "," "," ",":"," ">> \o meta[3],
       <<"T","e","s","t"," ","O","b","j","e","c","t","i","v","e"," "," "," "," "," "," "," ",":"," ">> \o meta[4],
       <<"T","e","s","t"," ","O","p","e","r","a","t","o","r"," "," "," "," "," "," "," "," ",":"," ">> \o meta[1],
       <<"P","a","r","t","i","c","i","p","a","t","i","n","g"," ","A","s","s","e","t","(","s",")"," ",":"," ">> \o meta[5],
       <<"S","t","a","r","t"," ","T","i","m","e"," "," "," "," "," "," "," "," "," "," "," ",":"," ">> \o start_time_,
       Dashes, <<>>,
       <<"-","-","-"," ","L","o","g"," ","E","n","t","r","i","e","s"," ","-","-","-">> >>
    \o [i \in 1..Len(logs_) |-> txt_entry_line(logs_[i])]
    \o << <<>>, <<"-","-","-"," ","T","e","s","t"," ","S","e","s","s","i","o","n"," ","E","n","d","e","d"," ","-","-","-">>,
          <<"E","n","d"," ","T","i","m","e"," "," "," "," "," "," "," "," "," "," "," "," "," ",":"," ">> \o end_time_,
          <<"D","u","r","a","t","i","o","n"," "," "," "," "," "," "," "," "," "," "," "," "," ",":"," ">> \o duration_text(duration),
          Dashes,
          <<"S","u","m","m","a","r","y"," ","o","f"," ","T","a","g","s",":">> >>
    \o [i \in 1..Len(order) |->
          pad_left_justified(order[i], 10) \o <<":"," ">> \o display_int(counts[order[i]])]
    \o << Dashes >>

csv_row(log) ==
    <<"\"">> \o log.local_time \o <<"\"",",","\"">> \o log.utc_time \o <<"\"",",","\"">>
    \o trim(log.entry_type) \o <<"\"",",","\"">> \o trim(log.tag) \o <<"\"",",","\"">>
    \o log.description \o <<"\"">>

CsvColumns == <<"L","o","c","a","l"," ","T","i","m","e",",","U","T","C"," ","T","i","m","e",",","E","n","t","r","y"," ","T","y","p","e",",","T","a","g",",","D","e","s","c","r","i","p","t","i","o","n">>

\* The lines write_logs_csv writes, in order
write_logs_csv(logs_, meta, start_time_, end_time_, duration, counts, order) ==
    << <<"T","e","s","t"," ","N","a","m","e",",">> \o meta[2],
       <<"S","o","f","t","w","a","r","e"," ","V","e","r","s","i","o","n",",">> \o meta[3],
       <<"T","e","s","t"," ","O","b","j","e","c","t","i","v","e",",">> \o meta[4],
       <<"T","e","s","t"," ","O","p","e","r","a","t","o","r",",">> \o meta[1],
       <<"P","a","r","t","i","c","i","p","a","t","i","n","g"," ","A","s","s","e","t","(","s",")",",">> \o meta[5],
       <<"S","t","a","r","t"," ","T","i","m","e",",">> \o start_time_,
       <<>>,
       CsvColumns >>
    \o [i \in 1..Len(logs_) |-> csv_row(logs_[i])]
    \o << <<>>, <<"S","u","m","m","a","r","y"," ","I","n","f","o","r","m","a","t","i","o","n">>,
          <<"E","n","d"," ","T","i","m","e",",">> \o end_time_,
          <<"D","u","r","a","t","i","o","n",",">> \o duration_text(duration),
          <<>>,
          <<"T","a","g",",","C","o","u","n","t">> >>
    \o [i \in 1..Len(order) |->
          order[i] \o <<",">> \o display_int(counts[order[i]])]

\* ----------------------------------------------------------------- state
VARIABLES pc, err, answers, input, logs, tag_counts, accepted,
          start_time, start_dt, end_local, end_dt, elapsed, hash_order,
          txt_file, csv_file, txt_result, csv_result, saved,
          arg, ret, p_pc

session_vars == <<pc, err, answers, input, logs, tag_counts, accepted,
                  start_time, start_dt, end_local, end_dt, elapsed, hash_order,
                  txt_file, csv_file, txt_result, csv_result, saved>>
parse_vars == <<arg, ret, p_pc>>
vars == <<pc, err, answers, input, logs, tag_counts, accepted,
          start_time, start_dt, end_local, end_dt, elapsed, hash_order,
          txt_file, csv_file, txt_result, csv_result, saved, arg, ret, p_pc>>

\* What rl.readline can return at a metadata prompt
MetaLines == { <<" ","S","m","o","k","e"," ","t","e","s","t"," ">> }

\* What rl.readline can return in the entry loop
Lines == { <<>>, <<" ","\t">>, <<"e","n","d">>, <<" ","E","n","d"," ">>, <<"e","n","d",",","b">>, <<"b","u","g",":"," ","a">>,
           <<"B","U","G",":">>, <<"W","a","r","n",":"," ","\"","q","\"">> }

NoFile == [exists |-> FALSE, lines |-> <<>>]

SessionInit ==
    /\ pc = "new_editor"
    /\ err = "none"
    /\ answers = <<>>
    /\ input = <<>>
    /\ logs = <<>>
    /\ tag_counts = EmptyCounts
    /\ accepted = <<>>
    /\ start_time = <<>>
    /\ start_dt = 0
    /\ end_local = <<>>
    /\ end_dt = 0
    /\ elapsed = 0
    /\ hash_order = <<>>
    /\ txt_file = NoFile
    /\ csv_file = NoFile
    /\ txt_result = "not_called"
    /\ csv_result = "not_called"
    /\ saved = FALSE

Init ==
    /\ SessionInit
    /\ arg = <<>>
    /\ ret = <<>>
    /\ p_pc = "unused"

ignore_error(next_pc) == next_pc

\* The ? operator on an Err: main returns the error
question_mark(next_pc) == "exit"

\* DefaultEditor::new()?
EditorNew ==
    /\ pc = "new_editor"
    /\ pc' = "prompt"
    /\ UNCHANGED <<err, answers, input, logs, tag_counts, accepted, start_time,
                   start_dt, end_local, end_dt, elapsed, hash_order, txt_file,
                   csv_file, txt_result, csv_result, saved, parse_vars>>

EditorNewFail ==
    /\ pc = "new_editor"
    /\ err' = "readline"
    /\ pc' = question_mark("prompt")
    /\ UNCHANGED <<answers, input, logs, tag_counts, accepted, start_time,
                   start_dt, end_local, end_dt, elapsed, hash_order, txt_file,
                   csv_file, txt_result, csv_result, saved, parse_vars>>

\* One of the five metadata prompts: rl.readline(..)?.trim().to_string()
Prompt(line) ==
    /\ pc = "prompt"
    /\ answers' = Append(answers, trim(line))
    /\ pc' = IF Len(answers) + 1 = 5 THEN "start" ELSE "prompt"
    /\ UNCHANGED <<err, input, logs, tag_counts, accepted, start_time,
                   start_dt, end_local, end_dt, elapsed, hash_order, txt_file,
                   csv_file, txt_result, csv_result, saved, parse_vars>>

PromptFail ==
    /\ pc = "prompt"
    /\ err' = "readline"
    /\ pc' = question_mark("prompt")
    /\ UNCHANGED <<answers, input, logs, tag_counts, accepted, start_time,
                   start_dt, end_local, end_dt, elapsed, hash_order, txt_file,
                   csv_file, txt_result, csv_result, saved, parse_vars>>

\* get_default_log_dir panics (unwrap / expect) when no directory was given
LogDirPanic ==
    /\ pc = "start"
    /\ err' = "panic"
    /\ pc' = "exit"
    /\ UNCHANGED <<answers, input, logs, tag_counts, accepted, start_time,
                   start_dt, end_local, end_dt, elapsed, hash_order, txt_file,
                   csv_file, txt_result, csv_result, saved, parse_vars>>

\* Paths resolved, logs and tag_counts created, TEST START pushed
StartSession(now) ==
    /\ pc = "start"
    /\ LET ts == get_timestamp(now)
       IN  /\ start_time' = ts[1]
           /\ start_dt' = ts[3]
           /\ logs' = push(<<>>, LogEntry(ts[1], ts[2], <<"T","E","S","T"," ","S","T","A","R","T">>,
                                          <<"T","e","s","t"," ","s","t","a","r","t","e","d">>, <<"N","O","T","E">>))
    /\ tag_counts' = EmptyCounts
    /\ pc' = "loop"
    /\ UNCHANGED <<err, answers, input, accepted, end_local, end_dt, elapsed,
                   hash_order, txt_file, csv_file, txt_result, csv_result,
                   saved, parse_vars>>

\* rl.readline("> ")? fails
ReadFail ==
    /\ pc = "loop"
    /\ err' = "readline"
    /\ pc' = question_mark("loop")
    /\ UNCHANGED <<answers, input, logs, tag_counts, accepted, start_time,
                   start_dt, end_local, end_dt, elapsed, hash_order, txt_file,
                   csv_file, txt_result, csv_result, saved, parse_vars>>

\* behavior.is_empty(): continue
ReadEmpty(line) ==
    /\ pc = "loop"
    /\ trim(line) = <<>>
    /\ input' = line
    /\ UNCHANGED <<pc, err, answers, logs, tag_counts, accepted, start_time,
                   start_dt, end_local, end_dt, elapsed, hash_order, txt_file,
                   csv_file, txt_result, csv_result, saved, parse_vars>>

\* behavior.eq_ignore_ascii_case("end"): break
ReadEnd(line) ==
    /\ pc = "loop"
    /\ trim(line) # <<>>
    /\ eq_ignore_ascii_case(trim(line), <<"e","n","d">>)
    /\ input' = line
    /\ pc' = "close"
    /\ UNCHANGED <<err, answers, logs, tag_counts, accepted, start_time,
                   start_dt, end_local, end_dt, elapsed, hash_order, txt_file,
                   csv_file, txt_result, csv_result, saved, parse_vars>>

\* Any other line: classify, timestamp, push, tally
ReadRecord(line, now) ==
    /\ pc = "loop"
    /\ Len(accepted) < MaxRecords
    /\ trim(line) # <<>>
    /\ ~eq_ignore_ascii_case(trim(line), <<"e","n","d">>)
    /\ input' = line
    /\ LET behavior == trim(line)
           parsed == parse_input(behavior)
           ts == get_timestamp(now)
       IN  /\ logs' = push(logs, LogEntry(ts[1], ts[2], parsed[1], parsed[3],
                                          parsed[2]))
           /\ tag_counts' = tally(tag_counts, parsed[2])
           /\ accepted' = Append(accepted, behavior)
    /\ UNCHANGED <<pc, err, answers, start_time, start_dt, end_local, end_dt,
                   elapsed, hash_order, txt_file, csv_file, txt_result,
                   csv_result, saved, parse_vars>>

\* After the loop (its variable input is dropped): end timestamp, elapsed,
\* TEST END pushed, summary printed.
\* tag_counts is not modified any more, so every later iteration of the map
\* visits its keys in the one order fixed here.
Close(now, order) ==
    /\ pc = "close"
    /\ order \in IterOrders(DOMAIN tag_counts)
    /\ LET ts == get_timestamp(now)
       IN  /\ end_local' = ts[1]
           /\ end_dt' = ts[3]
           /\ elapsed' = ts[3] - start_dt
           /\ logs' = push(logs, LogEntry(ts[1], ts[2], <<"T","E","S","T"," ","E","N","D">>,
                                          <<"T","e","s","t"," ","s","e","s","s","i","o","n"," ","e","n","d","e","d",".">>, <<"N","O","T","E">>))
    /\ hash_order' = order
    /\ input' = <<>>
    /\ pc' = "write_txt"
    /\ UNCHANGED <<err, answers, tag_counts, accepted, start_time,
                   start_dt, txt_file, csv_file, txt_result, csv_result, saved,
                   parse_vars>>

TxtLines ==
    write_logs_txt(logs, answers, start_time, end_local, elapsed, tag_counts,
                   hash_order)

CsvLines ==
    write_logs_csv(logs, answers, start_time, end_local, elapsed, tag_counts,
                   hash_order)

\* write_logs_txt(..)? returns Ok
WriteTxtOk ==
    /\ pc = "write_txt"
    /\ txt_file' = [exists |-> TRUE, lines |-> TxtLines]
    /\ txt_result' = "ok"
    /\ pc' = "write_csv"
    /\ UNCHANGED <<err, answers, input, logs, tag_counts, accepted, start_time,
                   start_dt, end_local, end_dt, elapsed, hash_order, csv_file,
                   csv_result, saved, parse_vars>>

\* OpenOptions::open fails: nothing is created or truncated
WriteTxtOpenFail ==
    /\ pc = "write_txt"
    /\ txt_result' = "open_err"
    /\ err' = "io"
    /\ pc' = question_mark("write_csv")
    /\ UNCHANGED <<answers, input, logs, tag_counts, accepted, start_time,
                   start_dt, end_local, end_dt, elapsed, hash_order, txt_file,
                   csv_file, csv_result, saved, parse_vars>>

\* A writeln! fails after n lines were written
WriteTxtWriteFail(n) ==
    /\ pc = "write_txt"
    /\ n < Len(TxtLines)
    /\ txt_file' = [exists |-> TRUE, lines |-> SubSeq(TxtLines, 1, n)]
    /\ txt_result' = "write_err"
    /\ err' = "io"
    /\ pc' = question_mark("write_csv")
    /\ UNCHANGED <<answers, input, logs, tag_counts, accepted, start_time,
                   start_dt, end_local, end_dt, elapsed, hash_order, csv_file,
                   csv_result, saved, parse_vars>>

\* write_logs_csv(..)? returns Ok, the success message is printed, Ok(())
WriteCsvOk ==
    /\ pc = "write_csv"
    /\ csv_file' = [exists |-> TRUE, lines |-> CsvLines]
    /\ csv_result' = "ok"
    /\ saved' = TRUE
    /\ pc' = "exit"
    /\ UNCHANGED <<err, answers, input, logs, tag_counts, accepted, start_time,
                   start_dt, end_local, end_dt, elapsed, hash_order, txt_file,
                   txt_result, parse_vars>>

WriteCsvOpenFail ==
    /\ pc = "write_csv"
    /\ csv_result' = "open_err"
    /\ err' = "io"
    /\ pc' = question_mark("exit")
    /\ UNCHANGED <<answers, input, logs, tag_counts, accepted, start_time,
                   start_dt, end_local, end_dt, elapsed, hash_order, txt_file,
                   csv_file, txt_result, saved, parse_vars>>

WriteCsvWriteFail(n) ==
    /\ pc = "write_csv"
    /\ n < Len(CsvLines)
    /\ csv_file' = [exists |-> TRUE, lines |-> SubSeq(CsvLines, 1, n)]
    /\ csv_result' = "write_err"
    /\ err' = "io"
    /\ pc' = question_mark("exit")
    /\ UNCHANGED <<answers, input, logs, tag_counts, accepted, start_time,
                   start_dt, end_local, end_dt, elapsed, hash_order, txt_file,
                   txt_result, saved, parse_vars>>

Next ==
    \/ EditorNew
    \/ EditorNewFail
    \/ \E line \in MetaLines : Prompt(line)
    \/ PromptFail
    \/ LogDirPanic
    \/ \E now \in Instants : StartSession(now)
    \/ ReadFail
    \/ \E line \in Lines : ReadEmpty(line)
    \/ \E line \in Lines : ReadEnd(line)
    \/ \E line \in Lines, now \in Instants : ReadRecord(line, now)
    \/ \E now \in Instants, order \in IterOrders(DOMAIN tag_counts) :
          Close(now, order)
    \/ WriteTxtOk
    \/ WriteTxtOpenFail
    \/ \E n \in 0..MaxWritten : WriteTxtWriteFail(n)
    \/ WriteCsvOk
    \/ WriteCsvOpenFail
    \/ \E n \in 0..MaxWritten : WriteCsvWriteFail(n)

Spec == Init /\ [][Next]_vars

\* ----------------------------------------- parse_input called on its own
Prefixes == { <<"b","u","g",":">>, <<"w","a","r","n",":">>, <<"g","o","o","d",":">>, <<"p","a","s","s",":">>, <<"f","a","i","l",":">>,
              <<"r","e","l","o","a","d",":">>, <<"t","e","s","t","c","a","s","e",":">> }

to_uppercase_char(c) ==
    IF \E i \in 1..Len(LowerCase) : LowerCase[i] = c
    THEN UpperCase[CHOOSE i \in 1..Len(LowerCase) : LowerCase[i] = c]
    ELSE c

\* Every letter casing of p
Casings(p) ==
    {[i \in 1..Len(p) |-> IF i \in U THEN to_uppercase_char(p[i]) ELSE p[i]] :
        U \in SUBSET (1..Len(p))}

DescChars == {" ", "x", "Y", ":"}

Descs == UNION {[1..n -> DescChars] : n \in 0..MaxDescLen}

\* p + d for every casing of every prefix
PrefixedInputs == {v \o d : v \in UNION {Casings(p) : p \in Prefixes}, d \in Descs}

\* short strings, near misses of the prefixes, prefixes after whitespace
OtherInputs ==
    Descs
    \cup {SubSeq(v, 1, Len(v) - 1) \o d :
            v \in Prefixes \cup {[i \in 1..Len(p) |-> to_uppercase_char(p[i])] : p \in Prefixes},
            d \in Descs}
    \cup {<<c>> \o p \o d : c \in {"x", " "}, p \in Prefixes, d \in Descs}
    \cup {SubSeq(p, 1, Len(p) - 1) \o <<" ",":">> \o d : p \in Prefixes, d \in Descs}

ParseInputs == PrefixedInputs \cup OtherInputs

ParseInit ==
    /\ SessionInit
    /\ arg \in ParseInputs
    /\ ret = <<>>
    /\ p_pc = "call"

ParseCall ==
    /\ p_pc = "call"
    /\ ret' = parse_input(arg)
    /\ p_pc' = "return"
    /\ UNCHANGED <<arg, session_vars>>

ParseNext == ParseCall

SpecParse == ParseInit /\ [][ParseNext]_vars

\* --------------------------------------------------------------- claims
\* s begins with p, letter case ignored
has_prefix_ci(s, p) ==
    /\ Len(s) >= Len(p)
    /\ \A i \in 1..Len(p) : to_lowercase_char(s[i]) = p[i]

\* r is d without its leading and trailing whitespace
IsTrimOf(r, d) ==
    /\ r = <<>> \/ (~is_whitespace(r[1]) /\ ~is_whitespace(r[Len(r)]))
    /\ \E a \in 0..Len(d), b \in 0..Len(d) :
          /\ a + b <= Len(d)
          /\ \A i \in 1..a : is_whitespace(d[i])
          /\ \A i \in (Len(d) - b + 1)..Len(d) : is_whitespace(d[i])
          /\ r = SubSeq(d, a + 1, Len(d) - b)

TableRow(p) ==
    CASE p = <<"b","u","g",":">> -> <<<<"O","B","S","E","R","V","A","T","I","O","N">>, <<"B","U","G">>>>
      [] p = <<"w","a","r","n",":">> -> <<<<"O","B","S","E","R","V","A","T","I","O","N">>, <<"W","A","R","N">>>>
      [] p = <<"g","o","o","d",":">> -> <<<<"O","B","S","E","R","V","A","T","I","O","N">>, <<"G","O","O","D">>>>
      [] p = <<"p","a","s","s",":">> -> <<<<"O","B","S","E","R","V","A","T","I","O","N">>, <<"P","A","S","S">>>>
      [] p = <<"f","a","i","l",":">> -> <<<<"O","B","S","E","R","V","A","T","I","O","N">>, <<"F","A","I","L">>>>
      [] p = <<"r","e","l","o","a","d",":">> -> <<<<"R","E","L","O","A","D">>, <<"V","E","R","S","I","O","N">>>>
      [] p = <<"t","e","s","t","c","a","s","e",":">> -> <<<<"T","E","S","T"," ","C","A","S","E">>, <<"N","A","M","E">>>>

\* C1: for every recognized prefix p in any letter casing and every
\* description d, parse_input(p + d) returns the kind and tag of p's table
\* row and d trimmed with its casing preserved (empty when d is whitespace)
C1_RecognizedPrefix ==
    p_pc = "return" =>
        \A p \in Prefixes :
            has_prefix_ci(arg, p) =>
                /\ Len(ret) = 3
                /\ ret[1] = TableRow(p)[1]
                /\ ret[2] = TableRow(p)[2]
                /\ IsTrimOf(ret[3], SubSeq(arg, Len(p) + 1, Len(arg)))

C1_Witness ==
    /\ p_pc = "return"
    /\ arg = <<"T","e","s","t","C","a","s","e",":"," ","Y">>
    /\ ret = <<<<"T","E","S","T"," ","C","A","S","E">>, <<"N","A","M","E">>, <<"Y">>>>

\* C2: parse_input is total, and an input whose trimmed form starts with
\* none of the seven prefixes (letter case ignored) yields exactly
\* (OBSERVATION, NOTE, the whole trimmed input)
C2_FallThroughToNote ==
    p_pc = "return" =>
        /\ Len(ret) = 3
        /\ \A i \in 1..3 : \A j \in 1..Len(ret[i]) : ret[i][j] # Panicked[1]
        /\ (\A p \in Prefixes :
               \A k \in 0..Len(arg) :
                  (\A i \in 1..k : is_whitespace(arg[i]))
                     => ~has_prefix_ci(SubSeq(arg, k + 1, Len(arg)), p))
           => /\ ret[1] = <<"O","B","S","E","R","V","A","T","I","O","N">>
              /\ ret[2] = <<"N","O","T","E">>
              /\ IsTrimOf(ret[3], arg)

C2_Witness ==
    /\ p_pc = "return"
    /\ arg = <<"b","u","g"," ",":","x"," ">>
    /\ ret = <<<<"O","B","S","E","R","V","A","T","I","O","N">>, <<"N","O","T","E">>, <<"b","u","g"," ",":","x">>>>

\* --------------------------------------------------- session log claims
SessionOpened == start_time # <<>>

SessionClosed == end_local # <<>>

Tags == { <<"B","U","G">>, <<"W","A","R","N">>, <<"G","O","O","D">>, <<"P","A","S","S">>, <<"F","A","I","L">>, <<"V","E","R","S","I","O","N">>,
          <<"N","A","M","E">>, <<"N","O","T","E">> }

IsLifecycle(e) == e.entry_type \in { <<"T","E","S","T"," ","S","T","A","R","T">>, <<"T","E","S","T"," ","E","N","D">> }

CountOf(t) == IF t \in DOMAIN tag_counts THEN tag_counts[t] ELSE 0

RecordedWithTag(t) ==
    Cardinality({i \in 1..Len(logs) : ~IsLifecycle(logs[i]) /\ logs[i].tag = t})

RECURSIVE SumCounts(_)
SumCounts(S) ==
    IF S = {} THEN 0
    ELSE LET t == CHOOSE x \in S : TRUE IN tag_counts[t] + SumCounts(S \ {t})

\* C3: once the session has opened, tag_counts[t] (0 when absent) is the
\* number of non-lifecycle entries with tag t; the sum of the counts is the
\* number of record steps, len(entries) - 1 while open and len(entries) - 2
\* once TEST END is appended; the lifecycle entries never count as NOTE
C3_TagTally ==
    SessionOpened =>
        /\ \A t \in Tags \cup DOMAIN tag_counts : CountOf(t) = RecordedWithTag(t)
        /\ SumCounts(DOMAIN tag_counts) = Len(accepted)
        /\ SumCounts(DOMAIN tag_counts) =
              IF SessionClosed THEN Len(logs) - 2 ELSE Len(logs) - 1

C3_Witness ==
    /\ SessionClosed
    /\ accepted = << <<"b","u","g",":"," ","a">>, <<"B","U","G",":">> >>
    /\ CountOf(<<"B","U","G">>) = 2
    /\ CountOf(<<"N","O","T","E">>) = 0
    /\ Len(logs) = 4

ClosedShape ==
    SessionClosed =>
        /\ Len(logs) = 2 + Len(accepted)
        /\ logs[1].entry_type = <<"T","E","S","T"," ","S","T","A","R","T">>
        /\ logs[1].tag = <<"N","O","T","E">>
        /\ logs[1].description = <<"T","e","s","t"," ","s","t","a","r","t","e","d">>
        /\ logs[Len(logs)].entry_type = <<"T","E","S","T"," ","E","N","D">>
        /\ logs[Len(logs)].tag = <<"N","O","T","E">>
        /\ logs[Len(logs)].description = <<"T","e","s","t"," ","s","e","s","s","i","o","n"," ","e","n","d","e","d",".">>
        /\ \A i \in 1..Len(accepted) :
              /\ ~IsLifecycle(logs[i + 1])
              /\ <<logs[i + 1].entry_type, logs[i + 1].tag,
                   logs[i + 1].description>> = parse_input(accepted[i])
        /\ (Len(accepted) = 0 => tag_counts = EmptyCounts)

AppendOnly ==
    /\ Len(logs') >= Len(logs)
    /\ SubSeq(logs', 1, Len(logs)) = logs
    /\ (SessionClosed => logs' = logs)

\* C4: after close, entries is TEST START, then the recorded entries in the
\* order their lines were accepted, then TEST END (length 2 + records);
\* entries only ever grows at its end and never after TEST END; with no
\* record step entries = [TEST START, TEST END] and tagCounts is empty
C4_ClosedLogShape == []ClosedShape /\ [][AppendOnly]_vars

C4_Witness ==
    /\ SessionClosed
    /\ accepted = << <<"e","n","d",",","b">>, <<"b","u","g",":"," ","a">> >>
    /\ logs[2].tag = <<"N","O","T","E">>
    /\ logs[3].tag = <<"B","U","G">>

LoopStep ==
    (pc = "loop" /\ err' = err) =>
        LET b == trim(input')
        IN  IF b = <<>>
            THEN /\ logs' = logs /\ tag_counts' = tag_counts
                 /\ accepted' = accepted /\ pc' = "loop"
            ELSE IF to_lowercase(b) = <<"e","n","d">>
            THEN /\ logs' = logs /\ tag_counts' = tag_counts
                 /\ accepted' = accepted /\ pc' = "close"
            ELSE /\ Len(logs') = Len(logs) + 1
                 /\ accepted' = Append(accepted, b) /\ pc' = "loop"

NeverClassified ==
    \A i \in 1..Len(accepted) :
        accepted[i] # <<>> /\ to_lowercase(accepted[i]) # <<"e","n","d">>

\* C5: a line empty after trimming appends nothing and leaves the session
\* open; a line whose trimmed form is "end" in any casing ends the session
\* unclassified and unrecorded; any other line appends exactly one entry;
\* parse_input is never called with an empty string or with "end"
C5_UpstreamFiltering == [][LoopStep]_vars /\ []NeverClassified

C5_Witness ==
    /\ pc = "close"
    /\ input = <<" ","E","n","d"," ">>
    /\ accepted = << <<"e","n","d",",","b">> >>
    /\ Len(logs) = 2

ElapsedWholeSeconds ==
    IF elapsed >= 0 THEN elapsed \div TicksPerSec
    ELSE -((-elapsed) \div TicksPerSec)

\* C6: the reported (minutes, seconds) come from elapsed = close reading
\* minus open reading, recompose its whole seconds, and seconds is in
\* [0, 60), for every pair of readings the Clock can return
C6_DurationDecomposition ==
    SessionClosed =>
        /\ elapsed = end_dt - start_dt
        /\ duration_minutes(elapsed) * 60 + duration_seconds(elapsed)
              = ElapsedWholeSeconds
        /\ duration_seconds(elapsed) >= 0
        /\ duration_seconds(elapsed) < 60

\* ------------------------------------------------ reading the artifacts
RECURSIVE find_from(_, _, _)
find_from(s, pat, i) ==
    IF i + Len(pat) - 1 > Len(s) THEN 0
    ELSE IF \A j \in 1..Len(pat) : s[i + j - 1] = pat[j] THEN i
    ELSE find_from(s, pat, i + 1)

\* Index of the first occurrence of pat in s, 0 when there is none
find_sub(s, pat) == find_from(s, pat, 1)

before(s, pat) == SubSeq(s, 1, find_sub(s, pat) - 1)

\* Least i >= from with lines[i] in targets, Len(lines) + 1 when none
RECURSIVE line_index(_, _, _)
line_index(lines, targets, from) ==
    IF from > Len(lines) THEN Len(lines) + 1
    ELSE IF lines[from] \in targets THEN from
    ELSE line_index(lines, targets, from + 1)

\* The lines that follow the first line equal to marker, up to the first
\* line in stops (or the end of the file)
Section(lines, marker, stops) ==
    LET h == line_index(lines, {marker}, 1)
        e == line_index(lines, stops, h + 1)
    IN  SubSeq(lines, h + 1, e - 1)

EntryTuple(e) ==
    <<e.local_time, e.utc_time, e.entry_type, e.tag, e.description>>

\* s split at the first occurrence of pat: <<found, before, after>>
split_once(s, pat) ==
    LET at == find_sub(s, pat)
    IN  IF at = 0 THEN <<FALSE, s, <<>> >>
        ELSE <<TRUE, SubSeq(s, 1, at - 1), SubSeq(s, at + Len(pat), Len(s))>>

\* A text entry line with its bracket/tab syntax stripped; <<>> when the
\* line does not have that syntax
parse_text_line(line) ==
    LET s0 == split_once(line, <<"[","L","o","c","a","l",":"," ">>)
        s1 == split_once(s0[3], <<"]"," ","[","U","T","C",":"," ">>)
        s2 == split_once(s1[3], <<"]"," ","[">>)
        s3 == split_once(s2[3], <<"]","\t","[">>)
        s4 == split_once(s3[3], <<"]","\t">>)
    IN  IF ~s0[1] \/ s0[2] # <<>> THEN <<>>
        ELSE IF ~s1[1] \/ ~s2[1] \/ ~s3[1] \/ ~s4[1] THEN <<>>
        ELSE <<s1[2], s2[2], s3[2], s4[2], s4[3]>>

\* The fields of a tabular row with their quotes stripped: each field runs
\* from its opening quote to the next quote and is followed by a comma or
\* the end of the row; <<>> when the row does not have that syntax
RECURSIVE parse_csv_row(_)
parse_csv_row(row) ==
    IF row = <<>> \/ row[1] # "\"" THEN <<>>
    ELSE LET rest == Tail(row)
             q == find_sub(rest, <<"\"">>)
         IN  IF q = 0 THEN <<>>
             ELSE LET field == SubSeq(rest, 1, q - 1)
                      more == SubSeq(rest, q + 1, Len(rest))
                  IN  IF more = <<>> THEN <<field>>
                      ELSE IF more[1] # "," THEN <<>>
                      ELSE LET fields == parse_csv_row(Tail(more))
                           IN  IF fields = <<>> THEN <<>>
                               ELSE <<field>> \o fields

TxtEntryLines == Section(txt_file.lines, <<"-","-","-"," ","L","o","g"," ","E","n","t","r","i","e","s"," ","-","-","-">>, {<<>>})

CsvEntryRows == Section(csv_file.lines, CsvColumns, {<<>>})

RenderersDoNotMutate ==
    (pc \in {"write_txt", "write_csv"}) =>
        logs' = logs /\ tag_counts' = tag_counts

OneLinePerEntry ==
    /\ txt_result = "ok" => Len(TxtEntryLines) = Len(logs)
    /\ csv_result = "ok" => Len(CsvEntryRows) = Len(logs)

TextRoundTrip ==
    txt_result = "ok" =>
        LET lines == TxtEntryLines
        IN  \A i \in 1..Len(logs) :
                i <= Len(lines)
                /\ parse_text_line(lines[i]) = EntryTuple(logs[i])

CsvRoundTrip ==
    csv_result = "ok" =>
        LET rows == CsvEntryRows
        IN  \A i \in 1..Len(logs) :
                i <= Len(rows)
                /\ parse_csv_row(rows[i]) = EntryTuple(logs[i])

\* C7: for every closed session log both renderers emit one entry line/row
\* per element of entries in stored order; the i-th text line with its
\* bracket/tab syntax stripped and the i-th tabular row with its quotes
\* stripped both give the tuple of the i-th entry; neither renderer
\* modifies entries or tagCounts
C7_CrossRendererConsistency ==
    /\ [](OneLinePerEntry /\ TextRoundTrip /\ CsvRoundTrip)
    /\ [][RenderersDoNotMutate]_vars

\* a < b in the byte order of strings of capital letters
RECURSIVE str_less(_, _)
str_less(a, b) ==
    IF b = <<>> THEN FALSE
    ELSE IF a = <<>> THEN TRUE
    ELSE IF a[1] = b[1] THEN str_less(Tail(a), Tail(b))
    ELSE find_sub(UpperCase, <<a[1]>>) < find_sub(UpperCase, <<b[1]>>)

TxtSummaryRows == Section(txt_file.lines, <<"S","u","m","m","a","r","y"," ","o","f"," ","T","a","g","s",":">>, {Dashes})

CsvSummaryRows == Section(csv_file.lines, <<"T","a","g",",","C","o","u","n","t">>, {})

TxtSummaryTags ==
    [i \in 1..Len(TxtSummaryRows) |-> trim(before(TxtSummaryRows[i], <<":">>))]

CsvSummaryTags ==
    [i \in 1..Len(CsvSummaryRows) |-> before(CsvSummaryRows[i], <<",">>)]

Ascending(tags) ==
    \A i \in 1..(Len(tags) - 1) : str_less(tags[i], tags[i + 1])

\* C8: in both artifacts the tag-count summary has one row per key of
\* tagCounts in ascending order of the key, so it is determined by
\* tagCounts alone and the two summaries list the tags in the same order
C8_SortedSummary ==
    /\ txt_result = "ok" =>
          /\ {TxtSummaryTags[i] : i \in 1..Len(TxtSummaryTags)} = DOMAIN tag_counts
          /\ Len(TxtSummaryTags) = Cardinality(DOMAIN tag_counts)
          /\ Ascending(TxtSummaryTags)
    /\ csv_result = "ok" =>
          /\ CsvSummaryTags = TxtSummaryTags
          /\ Ascending(CsvSummaryTags)

\* C9: when obtaining a line fails, at a metadata prompt or in the entry
\* loop, the run ends with that error and neither renderer is ever invoked:
\* no artifact is created or truncated, whatever was recorded before
C9_InputFailureIsFatal ==
    err = "readline" =>
        /\ pc = "exit"
        /\ txt_result = "not_called"
        /\ csv_result = "not_called"
        /\ txt_file = NoFile
        /\ csv_file = NoFile
        /\ ~saved

C9_Witness ==
    /\ err = "readline"
    /\ pc = "exit"
    /\ Len(accepted) = 2
    /\ Len(logs) = 3

\* C10: the tabular artifact is attempted only after the text artifact was
\* written in full; a failure to open or write the text artifact ends the
\* run with an error and the tabular write is never attempted; the success
\* message is printed only when both writes succeeded
C10_FailFastWriting ==
    /\ csv_result # "not_called" =>
          /\ txt_result = "ok"
          /\ txt_file = [exists |-> TRUE, lines |-> TxtLines]
    /\ txt_result \in {"open_err", "write_err"} =>
          /\ csv_result = "not_called"
          /\ csv_file = NoFile
          /\ err = "io"
          /\ pc = "exit"
    /\ txt_result = "open_err" => txt_file = NoFile
    /\ saved => txt_result = "ok" /\ csv_result = "ok" /\ err = "none"

C10_Witness ==
    /\ txt_result = "write_err"
    /\ txt_file.exists
    /\ csv_result = "not_called"
    /\ pc = "exit"
    /\ Len(logs) = 3

====
